---- MODULE Spec2Model ----
(***************************************************************************)
(* The spreadsheet mirror service of src/api.py: an Excel workbook is      *)
(* loaded into the in-memory table final_df, served by GET /data after     *)
(* the overrides of the SQLite table "overrides" are merged onto it, and   *)
(* edited cell by cell by POST /update.                                    *)
(*                                                                         *)
(* Text is modelled as sequences of one-character strings, so that canon,  *)
(* strip, lower and upper work on characters as the Python code does.      *)
(***************************************************************************)
EXTENDS Integers, Sequences, FiniteSets, TLC

\* ------------------------------------------------------------------ bounds
\* The number of edits that reach the workbook save, per behaviour. The
\* clock advances by one with every save, so it also bounds the clock.
MaxEdits == 2

\* ------------------------------------------------------------- characters
None == <<"<None>">>
NaN == <<"<NaN>">>

LowerLetters == <<"a","b","c","d","e","f","g","h","i","j","k","l","m",
                  "n","o","p","q","r","s","t","u","v","w","x","y","z">>
UpperLetters == <<"A","B","C","D","E","F","G","H","I","J","K","L","M",
                  "N","O","P","Q","R","S","T","U","V","W","X","Y","Z">>
Digits == <<"0","1","2","3","4","5","6","7","8","9">>

\* The punctuation characters that canon removes (api.py line 55).
\* The grave accent cannot be written in a TLA+ string; "<grave>" stands
\* for it.
PunctChars == {"<grave>", ".", ",", ":", "-", "[", "]"}
\* The characters \s matches and str.strip() trims.
SpaceChars == {" ", "\t", "\n"}

\* A function on 1..n, as the sequence of its values.
Text(f) == <<>> \o f

\* str.upper() and str.lower(): a letter becomes the letter of the other
\* case, any other character stays.
upper(s) ==
  Text([i \in 1..Len(s) |->
          IF \E k \in 1..26 : LowerLetters[k] = s[i]
            THEN UpperLetters[CHOOSE k \in 1..26 : LowerLetters[k] = s[i]]
            ELSE s[i]])
lower(s) ==
  Text([i \in 1..Len(s) |->
          IF \E k \in 1..26 : UpperLetters[k] = s[i]
            THEN LowerLetters[CHOOSE k \in 1..26 : UpperLetters[k] = s[i]]
            ELSE s[i]])

\* str.strip(): leading and trailing white space is removed.
strip(s) ==
  LET solid == {i \in 1..Len(s) : s[i] \notin SpaceChars}
  IN IF solid = {} THEN <<>>
     ELSE SubSeq(s, CHOOSE i \in solid : \A j \in solid : i <= j,
                    CHOOSE i \in solid : \A j \in solid : i >= j)

\* Python str(): None and NaN print as words, text is itself.
str(v) ==
  IF v = None THEN <<"N","o","n","e">>
  ELSE IF v = NaN THEN <<"n","a","n">>
  ELSE v

\* The first re.sub of canon: every punctuation character is removed.
StripPunct(s) == SelectSeq(s, LAMBDA c : c \notin PunctChars)

\* re.sub(r"\s+", " ", s): every run of white space becomes one blank. The
\* characters kept are those that are not white space and the first of
\* every run.
CollapseSpaces(s) ==
  LET starts(i) == s[i] \notin SpaceChars \/ i = 1 \/ s[i - 1] \notin SpaceChars
      kept == SelectSeq([i \in 1..Len(s) |-> i], starts)
  IN Text([j \in 1..Len(kept) |->
             IF s[kept[j]] \in SpaceChars THEN " " ELSE s[kept[j]]])

canon_collapse_first(s) ==
  IF s = None THEN <<>>
  ELSE upper(strip(StripPunct(CollapseSpaces(str(s)))))

\* canon, as the code computes it.
canon_steps(s) ==
  IF s = None THEN <<>>
  ELSE upper(strip(CollapseSpaces(StripPunct(str(s)))))

\* ------------------------------------------------------------------- texts
\* The texts of the model, as character sequences.
T_corp == <<"c","o","r","p">>
T_EB == <<"E","B">>
H_CLIENT_CODE == <<"C","L","I","E","N","T"," ","C","O","D","E">>
H_STATUS == <<"S","T","A","T","U","S">>
H_Status == <<"S","t","a","t","u","s">>
H_Premium == <<"P","r","e","m","i","u","m",".">>
H_STATUS_UPDATED_AT == <<"S","T","A","T","U","S","_","U","P","D","A","T","E","D","_","A","T">>
H_SOURCE_SHEET == <<"S","O","U","R","C","E","_","S","H","E","E","T">>
H_status_updated_at_dot ==
  <<"s","t","a","t","u","s","_","u","p","d","a","t","e","d","_","a","t",".">>
Q_Status == <<"S","t","a","t","u","s">>
Q_premium == <<"p","r","e","m","i","u","m">>
Q_Nope == <<"N","o","p","e">>
V_CrossSell == <<"C","r","o","s","s","-","S","e","l","l">>
V_SharedClient == <<"S","h","a","r","e","d"," ","C","l","i","e","n","t">>
V_10 == <<"1","0">>
K_C001 == <<"C","0","0","1">>
K_c001_padded == <<" ","c","0","0","1"," ">>
K_C009 == <<"C","0","0","9">>
K_E001 == <<"E","0","0","1">>

\* The labels and values that are canonicalized again and again, and
\* their canonical forms, computed once.
KnownTexts ==
  {None, H_CLIENT_CODE, H_STATUS, H_Status, H_Premium, H_STATUS_UPDATED_AT,
   H_status_updated_at_dot, Q_premium, Q_Nope, V_CrossSell, V_SharedClient}
CanonOfKnown == [s \in KnownTexts |-> canon_steps(s)] @@ <<>>

canon(s) == IF s \in KnownTexts THEN CanonOfKnown[s] ELSE canon_steps(s)

\* ------------------------------------------------------------------ config
\* SHEETS: the sheets load_excel reads, in order (two of the six configured).
SHEETS == <<T_corp, T_EB>>
ALLOWED_STATUS_VALUES ==
  {<<"C","R","O","S","S","-","S","E","L","L">>,
   <<"S","H","A","R","E","D"," ","C","L","I","E","N","T">>}

\* find_header_index returns None when no header matches.
NoneIdx == -1

Min(S) == CHOOSE x \in S : \A y \in S : x <= y
Max(S) == CHOOSE x \in S : \A y \in S : x >= y

\* -------------------------------------------------------------- worksheets
\* A worksheet is [hdr, rows]: row 1 (the header cells) and the data rows
\* (row 2 onward), every row as wide as the header (ws.max_column).

find_last_header_index(ws, target_header) ==
  LET target_c == canon(target_header)
      hits == {i \in 1..Len(ws.hdr) : canon(ws.hdr[i]) = target_c}
  IN IF hits = {} THEN NoneIdx ELSE Max(hits) - 1

\* The ZERO-based index of the first header whose canonical form is that of
\* target_header, or None.
find_header_index(ws, target_header) ==
  LET target_c == canon(target_header)
      hits == {i \in 1..Len(ws.hdr) : canon(ws.hdr[i]) = target_c}
  IN IF hits = {} THEN NoneIdx ELSE Min(hits) - 1

worksheet_headers(ws) == ws.hdr


\* {str(h): v for h, v in zip(headers, values)}: a later duplicate label wins.
get_row_dict(ws, row_idx_1based) ==
  LET headers == worksheet_headers(ws)
      \* the cells of the row (row 1 is the header)
      values == IF row_idx_1based = 1 THEN ws.hdr ELSE ws.rows[row_idx_1based - 1]
      n == Min({Len(headers), Len(values)})
  IN [k \in {str(headers[i]) : i \in 1..n} |->
        values[Max({i \in 1..n : str(headers[i]) = k})]]

find_last_row(ws, client_code_col_idx, client_code) ==
  LET hits == {j \in 1..Len(ws.rows) :
                 LET cell_val == ws.rows[j][client_code_col_idx + 1]
                 IN cell_val # None
                    /\ lower(strip(str(cell_val))) = lower(client_code)}
  IN IF hits = {} THEN NoneIdx ELSE Max(hits) + 1

\* The loop of update_excel over ws.iter_rows(min_row=2): the 1-based row
\* number of the first data row whose client code cell, trimmed and lowered,
\* equals the lowered request key; None when there is none.
find_row(ws, client_code_col_idx, client_code) ==
  LET hits == {j \in 1..Len(ws.rows) :
                 LET cell_val == ws.rows[j][client_code_col_idx + 1]
                 IN cell_val # None
                    /\ lower(strip(str(cell_val))) = lower(client_code)}
  IN IF hits = {} THEN NoneIdx ELSE Min(hits) + 1

\* A sequence padded with None to width w.
PadTo(row, w) == Text([i \in 1..w |-> IF i <= Len(row) THEN row[i] ELSE None])

\* ws.cell(row=, column=, value=): a column beyond max_column widens the sheet.
SetCell(ws, row, column, value) ==
  LET w == Max({Len(ws.hdr), column})
      hdr == PadTo(ws.hdr, w)
      rows == [j \in 1..Len(ws.rows) |-> PadTo(ws.rows[j], w)]
  IN IF row = 1
       THEN [hdr |-> [hdr EXCEPT ![column] = value], rows |-> rows]
       ELSE [hdr |-> hdr, rows |-> [rows EXCEPT ![row - 1][column] = value]]

\* datetime.now().strftime(...) and int(time.time()) at clock value t.
TimeStr(t) == <<"T", Digits[t + 1]>>

write_cells_over_last(ws, target_row_idx, target_col_idx, new_value, current_time) ==
  LET ws1 == SetCell(ws, target_row_idx, target_col_idx + 1, new_value)
      ts_header_idx == find_header_index(ws1, H_STATUS_UPDATED_AT)
  IN IF ts_header_idx = NoneIdx
       THEN LET new_ts_col_1based == Len(ws1.hdr)
            IN SetCell(SetCell(ws1, 1, new_ts_col_1based, H_STATUS_UPDATED_AT),
                       target_row_idx, new_ts_col_1based, current_time)
       ELSE SetCell(ws1, target_row_idx, ts_header_idx + 1, current_time)

\* Lines 285-296 of update_excel: the new value, then the timestamp, whose
\* column is appended at ws.max_column + 1 when no header matches.
write_cells(ws, target_row_idx, target_col_idx, new_value, current_time) ==
  LET ws1 == SetCell(ws, target_row_idx, target_col_idx + 1, new_value)
      ts_header_idx == find_header_index(ws1, H_STATUS_UPDATED_AT)
  IN IF ts_header_idx = NoneIdx
       THEN LET new_ts_col_1based == Len(ws1.hdr) + 1
            IN SetCell(SetCell(ws1, 1, new_ts_col_1based, H_STATUS_UPDATED_AT),
                       target_row_idx, new_ts_col_1based, current_time)
       ELSE SetCell(ws1, target_row_idx, ts_header_idx + 1, current_time)

\* --------------------------------------------------------------- workbooks
\* The workbook the external process that owns Data.xlsx writes, WB_A, and
\* the sheets of others: WS_corp_B is the same data with the status column
\* relabelled "Status".
WS_corp_A == [hdr |-> <<H_CLIENT_CODE, H_STATUS, H_Premium>>,
              rows |-> << <<K_C001, None, V_10>> >>]
WS_corp_B == [hdr |-> <<H_CLIENT_CODE, H_Status, H_Premium>>,
              rows |-> << <<K_C001, None, V_10>> >>]
WS_EB == [hdr |-> <<H_CLIENT_CODE, H_STATUS>>,
          rows |-> << <<K_E001, None>> >>]

Workbook(corp, eb) == [s \in {T_corp, T_EB} |-> IF s = T_corp THEN corp ELSE eb]
WB_A == Workbook(WS_corp_A, WS_EB)
\* The content of a file that is missing or cannot be parsed.
NoWorkbook == <<>>

\* ------------------------------------------------------------- data frames
\* A DataFrame is [columns, records]: the set of column labels and the rows
\* as to_dict(orient="records") gives them.
EmptyDataFrame == [columns |-> {}, records |-> <<>>]

\* The label pandas gives column i of a header row: a blank header is
\* "Unnamed: <i-1>", a repeated label gets ".<k>".
ColName(hdr, i) ==
  IF hdr[i] = None
    THEN <<"U","n","n","a","m","e","d",":"," ">> \o <<Digits[i]>>
  ELSE LET k == Cardinality({j \in 1..(i - 1) : hdr[j] = hdr[i]})
       IN IF k = 0 THEN hdr[i] ELSE hdr[i] \o <<".", Digits[k + 1]>>

\* pd.read_excel(EXCEL_FILE, sheet_name=sheet) followed by
\* df["SOURCE_SHEET"] = sheet; an empty cell reads as NaN.
read_excel(ws, sheet) ==
  LET cols == {ColName(ws.hdr, i) : i \in 1..Len(ws.hdr)}
      at(c) == CHOOSE i \in 1..Len(ws.hdr) : ColName(ws.hdr, i) = c
      val(v) == IF v = None THEN NaN ELSE v
  IN [columns |-> cols \cup {H_SOURCE_SHEET},
      records |-> [j \in 1..Len(ws.rows) |->
                     [c \in cols \cup {H_SOURCE_SHEET} |->
                        IF c = H_SOURCE_SHEET THEN sheet
                        ELSE val(ws.rows[j][at(c)])]]]

\* Whether pd.read_excel of the sheet succeeds on the file.
can_read(file, sheet) ==
  file.state = "ok" /\ sheet \in DOMAIN file.wb

\* The records of the frames, each widened to the columns cols, NaN where it
\* has no value.
RECURSIVE ConcatRecords(_, _)
ConcatRecords(dfs, cols) ==
  IF dfs = <<>> THEN <<>>
  ELSE [j \in 1..Len(Head(dfs).records) |->
          [c \in cols |-> IF c \in DOMAIN Head(dfs).records[j]
                            THEN Head(dfs).records[j][c] ELSE NaN]]
       \o ConcatRecords(Tail(dfs), cols)

\* pd.concat(combined_data, ignore_index=True) if combined_data else
\* pd.DataFrame()
concat(combined_data) ==
  IF combined_data = <<>> THEN EmptyDataFrame
  ELSE LET cols == UNION {combined_data[i].columns : i \in 1..Len(combined_data)}
       IN [columns |-> cols, records |-> ConcatRecords(combined_data, cols)]

\* The loop of load_excel over the sheets: a sheet that cannot be read is
\* logged and skipped.
RECURSIVE read_sheets(_, _)
read_sheets(file, sheets) ==
  IF sheets = <<>> THEN <<>>
  ELSE (IF can_read(file, Head(sheets))
          THEN <<read_excel(file.wb[Head(sheets)], Head(sheets))>>
          ELSE <<>>)
       \o read_sheets(file, Tail(sheets))

\* df.empty
empty(df) == df.records = <<>> \/ df.columns = {}

\* r.get(k, default)
Get(r, k, default) == IF k \in DOMAIN r THEN r[k] ELSE default

\* ------------------------------------------------------------------- state
VARIABLES
  excel_file,   \* EXCEL_FILE on disk: [state, wb], state one of "ok",
                \* "missing", "corrupt" (not a workbook)
  final_df,     \* the in-memory cache of combined data
  overrides,    \* the rows of the table overrides of OVERRIDES_DB
  now,          \* the clock: one tick per workbook save
  response,     \* the last HTTP response sent
  reader,       \* the thread serving GET /data: its position and locals
  loads,        \* load_excel in the watcher and the editor thread: position
                \* and locals
  editor,       \* the thread serving POST /update: its position and locals
  acked,        \* history: the patches of the edits that reported success
  cache_whole,  \* history: whether the table final_df names was assigned by
                \* a load_excel that had finished
  call,         \* one call of a helper function on its own: the function,
                \* its arguments, the objects it was handed and its result
  edits,        \* two threads serving POST /update at once: the position and
                \* the locals of each
  leave         \* the leave planner (app..py): the table of the session,
                \* st.session_state.leave_data, and the rows of leave_data.csv

conc_vars == <<reader, loads, editor, acked, cache_whole>>
vars == <<excel_file, final_df, overrides, now, response,
          reader, loads, editor, acked, cache_whole, call,
          edits, leave>>

\* What the environment does to one request: whether another program holds
\* the workbook open when it is saved (PermissionError), and whether
\* OVERRIDES_DB can be used when it is opened.
Env(locked, db_up) == [locked |-> locked, db_up |-> db_up]
Calm == Env(FALSE, TRUE)

\* ------------------------------------------------------------- load_excel
\* load_excel: the value it assigns to final_df.
load_excel(file) ==
  IF file.state = "missing" THEN EmptyDataFrame
  ELSE concat(read_sheets(file, SHEETS))

\* --------------------------------------------------------------- overrides
\* A row of the table overrides.
Patch(sheet, client_code, column_canon, column_actual, new_value, updated_at) ==
  [sheet |-> sheet, client_code |-> client_code, column_canon |-> column_canon,
   column_actual |-> column_actual, new_value |-> new_value,
   updated_at |-> updated_at]

\* PRIMARY KEY (sheet, client_code, column_canon)
SameKey(p, q) ==
  /\ p.sheet = q.sheet
  /\ p.client_code = q.client_code
  /\ p.column_canon = q.column_canon

drop_and_create(table) == {}

\* init_db: CREATE TABLE IF NOT EXISTS overrides(...). A table that exists
\* keeps its rows.
init_db(table) == table

insert_only(table, p) == table \cup {p}

\* INSERT ... ON CONFLICT(sheet, client_code, column_canon) DO UPDATE SET
\* new_value, updated_at, column_actual
upsert(table, p) == {q \in table : ~SameKey(q, p)} \cup {p}

\* The rows of the patch store after apply_overrides: the connection is
\* used for one SELECT and closed.
table_after_merge(rows, table) == table

\* apply_overrides opens the database unless rows is empty; the SELECT
\* raises when the database cannot be used.
apply_overrides_raises(rows, up) == rows # <<>> /\ ~up

apply_overrides_any_row(rows, table) ==
  IF rows = <<>> THEN rows
  ELSE [i \in 1..Len(rows) |->
          LET r == rows[i]
              sheet == str(Get(r, H_SOURCE_SHEET, <<>>))
              hit(k) == {p \in table : /\ p.sheet = sheet
                                       /\ p.column_actual = k}
          IN [k \in DOMAIN r |->
                IF hit(k) # {} THEN (CHOOSE p \in hit(k) : TRUE).new_value
                ELSE r[k]]]

\* apply_overrides(rows), on the rows of the table overrides.
apply_overrides(rows, table) ==
  IF rows = <<>> THEN rows
  ELSE [i \in 1..Len(rows) |->
          LET r == rows[i]
              sheet == str(Get(r, H_SOURCE_SHEET, <<>>))
              code == str(Get(r, H_CLIENT_CODE, <<>>))
              hit(k) == {p \in table : /\ p.sheet = sheet
                                       /\ p.client_code = code
                                       /\ p.column_actual = k}
          IN [k \in DOMAIN r |->
                IF hit(k) # {} THEN (CHOOSE p \in hit(k) : TRUE).new_value
                ELSE r[k]]]

merged_in_place(rows, table) == apply_overrides(rows, table)

\* The list the caller handed to apply_overrides, after the call: every row
\* is copied (nr = dict(r)) and the patched values are assigned to the copy.
rows_after_merge(rows, table) == rows

\* --------------------------------------------------------------- responses
Message(kind, arg) == [kind |-> kind, arg |-> arg]

Response(route, code, status, message) ==
  [route |-> route, code |-> code, status |-> status, message |-> message,
   sheet |-> None, client_code |-> None, column_actual |-> None,
   new_value |-> None, updated_at |-> None, body |-> <<>>]

NoResponse == Response("none", 0, "none", Message("none", <<>>))
Error(code, kind, arg) == Response("/update", code, "error", Message(kind, arg))

\* GET /data, evaluated in the current state, the database being usable or
\* not: an exception of the handler is the HTTP 500 of the framework.
get_all_data(db_up) ==
  LET base == IF ~empty(final_df) THEN final_df.records ELSE <<>>
  IN IF apply_overrides_raises(base, db_up)
       THEN Response("/data", 500, "error", Message("exception", <<>>))
       ELSE [Response("/data", 200, "ok", Message("none", <<>>))
               EXCEPT !.body = apply_overrides(base, overrides)]

\* ------------------------------------------------------------ update_excel
\* all([...]): a value is true when it is neither None nor empty.
Truthy(v) == v # None /\ v # <<>>

\* The requests POST /update is given: [sheet, client_code, column, new_value].
Request(sheet, client_code, column, new_value) ==
  [sheet |-> sheet, client_code |-> client_code, column |-> column,
   new_value |-> new_value]

Requests ==
  {Request(T_corp, k, Q_Status, v) : k \in {K_C001, K_c001_padded},
                                     v \in {V_CrossSell, V_SharedClient}}
  \cup {Request(T_corp, K_C001, Q_premium, v) : v \in {V_CrossSell, V_SharedClient}}
  \cup {Request(T_corp, K_C009, Q_Status, V_SharedClient),
        Request(T_corp, K_C001, Q_Nope, V_SharedClient),
        Request(<<"z","z">>, K_C001, Q_Status, V_SharedClient),
        Request(T_corp, None, Q_Status, V_SharedClient)}

\* The success response of update_excel (lines 330-338).
Success(sheet, client_code, actual_header, value, current_time) ==
  [Response("/update", 200, "success", Message("updated", actual_header))
     EXCEPT !.sheet = sheet, !.client_code = client_code,
            !.column_actual = actual_header, !.new_value = value,
            !.updated_at = current_time]

swallow_exception(resp_ok) == resp_ok

\* except Exception (lines 339-341): the response of a request whose
\* handler raised, resp_ok being the response it had not yet sent.
on_exception(resp_ok) == Error(500, "exception", <<>>)

\* What a request leaves behind: the response, the file, the table and the
\* cache; and the row it built for the INSERT, None if it did not get there.
Outcome(resp, file, table, df, patch) ==
  [resp |-> resp, file |-> file, table |-> table, df |-> df, patch |-> patch]

rejected_after_reload(resp) ==
  Outcome(resp, excel_file, overrides, load_excel(excel_file), None)

\* A request answered by one of the returns of lines 247-283: nothing has
\* been written.
Rejected(resp) == Outcome(resp, excel_file, overrides, final_df, None)

\* Lines 285-338 of update_excel, once sheet, column and row are resolved,
\* at clock value t in environment env.
write_and_persist(req, client_code, ws, target_col_idx, target_row_idx, t, env) ==
  LET current_time == TimeStr(t)
      ws2 == write_cells(ws, target_row_idx, target_col_idx, req.new_value,
                         current_time)
      headers == worksheet_headers(ws2)
      actual_header == IF target_col_idx < Len(headers)
                         THEN headers[target_col_idx + 1] ELSE req.column
      p == Patch(req.sheet, client_code, canon(req.column), actual_header,
                 str(req.new_value), t)
      saved == [excel_file EXCEPT !.wb[req.sheet] = ws2]
      live_row == get_row_dict(ws2, target_row_idx)
      resp_ok == Success(req.sheet, client_code, actual_header,
                         Get(live_row, actual_header, req.new_value),
                         current_time)
  IN IF env.locked
       \* except PermissionError: the handler returns before the INSERT
       THEN Outcome(Error(500, "locked", <<>>), excel_file, overrides,
                    final_df, p)
     ELSE IF ~env.db_up \/ actual_header = None
       \* OperationalError, or NOT NULL constraint failed
       THEN Outcome(on_exception(resp_ok), saved, overrides, final_df, p)
     ELSE Outcome(resp_ok, saved, upsert(overrides, p), load_excel(saved), p)

\* POST /update with request req at clock value t in environment env.
update_excel(req, t, env) ==
  LET sheet == req.sheet
      client_code == strip(IF Truthy(req.client_code) THEN req.client_code
                                                      ELSE <<>>)
      column_visible == req.column
  IN IF ~(Truthy(sheet) /\ Truthy(client_code) /\ Truthy(column_visible))
       THEN Rejected(Error(400, "missing_fields", <<>>))
     ELSE IF /\ canon(column_visible) = H_STATUS
             /\ canon(str(req.new_value)) \notin ALLOWED_STATUS_VALUES
       THEN Rejected(Error(400, "invalid_status", <<>>))
     ELSE IF excel_file.state = "missing"
       THEN Rejected(Error(500, "file_not_found", <<>>))
     ELSE IF excel_file.state = "corrupt"
       THEN Rejected(Error(500, "exception", <<>>))
     ELSE IF sheet \notin DOMAIN excel_file.wb
       THEN Rejected(Error(404, "sheet_not_found", sheet))
     ELSE
       LET ws == excel_file.wb[sheet]
           client_code_col_idx == find_header_index(ws, H_CLIENT_CODE)
           target_col_idx == find_header_index(ws, column_visible)
       IN IF client_code_col_idx = NoneIdx
            THEN Rejected(Error(400, "client_code_header_not_found", <<>>))
          ELSE IF target_col_idx = NoneIdx
            THEN Rejected(Error(400, "column_not_found", column_visible))
          ELSE
            LET target_row_idx == find_row(ws, client_code_col_idx, client_code)
            IN IF target_row_idx = NoneIdx
                 THEN Rejected(Error(404, "client_code_not_found", client_code))
               ELSE write_and_persist(req, client_code, ws, target_col_idx,
                                      target_row_idx, t, env)

\* ----------------------------------------------------------- leave planner
\* The leave planner of app..py. A table is a sequence of rows
\* [Employee, Date]; a date is a Timestamp, Ts(d), d the day of the month of
\* one month, or the text strftime gives for it, or NaT.

\* The days of the month the date picker offers.
MaxDay == 3

Ts(d) == [kind |-> "Timestamp", day |-> d]
NaT == [kind |-> "NaT", day |-> 0]
DateStr(text) == [kind |-> "str", text |-> text]
LeaveRow(employee, date) == [Employee |-> employee, Date |-> date]
\* leave_data.csv: whether it exists, and its rows.
CsvFile(rows) == [exists |-> TRUE, rows |-> rows]
NoCsvFile == [exists |-> FALSE, rows |-> <<>>]
LeaveTable(data, csv) == [data |-> data, csv |-> csv]
NoLeave == LeaveTable(<<>>, NoCsvFile)

\* dt.strftime("%Y-%m-%d") and str(date), for a day of January 2025.
strftime(date) ==
  DateStr(<<"2","0","2","5","-","0","1","-">>
          \o <<Digits[(date.day \div 10) + 1], Digits[(date.day % 10) + 1]>>)

\* The number each digit stands for.
DigitValue == [c \in {Digits[i] : i \in 1..10} |->
                 (CHOOSE i \in 1..10 : Digits[i] = c) - 1]

\* datetime.strptime(text, "%Y-%m-%d") for a day of January 2025; NaT for
\* any other text.
strptime(text) ==
  IF /\ Len(text) = 10
     /\ SubSeq(text, 1, 8) = <<"2","0","2","5","-","0","1","-">>
     /\ text[9] \in DOMAIN DigitValue
     /\ text[10] \in DOMAIN DigitValue
     /\ 10 * DigitValue[text[9]] + DigitValue[text[10]] \in 1..31
    THEN Ts(10 * DigitValue[text[9]] + DigitValue[text[10]])
    ELSE NaT

\* pd.to_datetime(value, errors="coerce"): a Timestamp is itself, a text is
\* parsed, NaT stays NaT.
to_datetime(value) ==
  IF value.kind = "str" THEN strptime(value.text) ELSE value

\* df["Date"] = pd.to_datetime(df["Date"], errors="coerce") followed by
\* df.dropna(subset=["Date"]) (lines 91-92, 40-42, 47-48).
parse_dates(df) ==
  SelectSeq([i \in 1..Len(df) |-> LeaveRow(df[i].Employee, to_datetime(df[i].Date))],
            LAMBDA row : row.Date # NaT)

\* save_leave_data: the table it is given has its dates parsed, rows without
\* a date dropped and the dates turned into text, in place; the same rows
\* are written to the file.
save_leave_data(df) ==
  LET rows == parse_dates(df)
      text == [i \in 1..Len(rows) |->
                 LeaveRow(rows[i].Employee, strftime(rows[i].Date))]
  IN LeaveTable(text, CsvFile(text))

\* load_leave_data: the rows of the file, dates parsed; an empty table when
\* there is no file.
load_leave_data(csv) == IF csv.exists THEN parse_dates(csv.rows) ELSE <<>>

\* sorted(...) of a list of Timestamps.
RECURSIVE sorted(_)
sorted(dates) ==
  IF dates = <<>> THEN <<>>
  ELSE LET i == CHOOSE i \in 1..Len(dates) :
                  \A j \in 1..Len(dates) : dates[i].day <= dates[j].day
       IN <<dates[i]>>
          \o sorted(SubSeq(dates, 1, i - 1) \o SubSeq(dates, i + 1, Len(dates)))

\* The loop of get_leave_ranges over emp_dates from index i on, start and
\* end being the bounds of the range being built.
RECURSIVE group_ranges(_, _, _, _)
group_ranges(emp_dates, i, start, end) ==
  IF i > Len(emp_dates) THEN << <<start, end>> >>
  ELSE IF emp_dates[i].day = end.day + 1
    THEN group_ranges(emp_dates, i + 1, start, emp_dates[i])
    ELSE << <<start, end>> >>
         \o group_ranges(emp_dates, i + 1, emp_dates[i], emp_dates[i])

\* get_leave_ranges(df, employee): the runs of consecutive days of the
\* employee, each as (first day, last day).
get_leave_ranges(df, employee) ==
  LET mine == SelectSeq(df, LAMBDA row : row.Employee = employee)
      emp_dates == sorted([i \in 1..Len(mine) |-> mine[i].Date])
  IN IF emp_dates = <<>> THEN <<>>
     ELSE group_ranges(emp_dates, 2, emp_dates[1], emp_dates[1])

never_present(df, employee, date) == FALSE

\* Lines 102-103: whether the table has a row of the employee on the date.
already_present(df, employee, date) ==
  \E i \in 1..Len(df) : df[i].Employee = employee /\ df[i].Date = to_datetime(date)

\* The loop of Add Leave (lines 100-107) over the dates from day d to
\* end_date: a date the employee does not have is appended.
RECURSIVE add_dates(_, _, _, _)
add_dates(df, employee, d, end_date) ==
  IF d > end_date.day THEN df
  ELSE add_dates(IF already_present(df, employee, Ts(d)) THEN df
                 ELSE Append(df, LeaveRow(employee, Ts(d))),
                 employee, d + 1, end_date)

\* Lines 278-282: the rows that are not the employee's rows in the range.
delete_range(df, employee, start_date, end_date) ==
  SelectSeq(df, LAMBDA row : ~(/\ row.Employee = employee
                               /\ row.Date.day >= start_date.day
                               /\ row.Date.day <= end_date.day))

\* ----------------------------------------------------------------- threads
\* The locals of the thread serving GET /data: the statement it is at and
\* the local base. whole and acked are history: whether base was taken from
\* a table that a finished load_excel had assigned, and the edits that had
\* reported success when the read started.
Reader(pc, base, whole, seen) ==
  [pc |-> pc, base |-> base, whole |-> whole, acked |-> seen]
ReaderIdle == Reader("idle", <<>>, TRUE, {})

\* The locals of one run of load_excel: the sheets still to read and
\* combined_data.
Load(pc, todo, combined_data) ==
  [pc |-> pc, todo |-> todo, combined_data |-> combined_data]
LoadIdle == Load("idle", <<>>, <<>>)
Threads == {"watcher", "editor"}

\* The locals of the thread serving POST /update: the statement it is at,
\* the row for the INSERT and the success response it has prepared.
Editor(pc, patch, resp) == [pc |-> pc, patch |-> patch, resp |-> resp]
EditorIdle == Editor("idle", None, NoResponse)

\* The locals of one of two threads serving POST /update at the same time:
\* the statement it is at, its request, the workbook object load_workbook
\* gave it and the row for its INSERT.
Edit(pc, req, wb, patch) == [pc |-> pc, req |-> req, wb |-> wb, patch |-> patch]
EditIdle == Edit("idle", None, NoWorkbook, None)
EditThreads == {"e1", "e2"}

commit_after_respond(pc) ==
  CASE pc = "save" -> "reload"
    [] pc = "reload" -> "respond"
    [] pc = "respond" -> "commit"
    [] pc = "commit" -> "idle"

\* The order of the statements of update_excel after the rows are resolved:
\* wb.save (300), INSERT and commit (313-321), load_excel (326), the
\* response (330-338).
after(pc) ==
  CASE pc = "save" -> "commit"
    [] pc = "commit" -> "reload"
    [] pc = "reload" -> "respond"
    [] pc = "respond" -> "idle"

rebuilt_in_place(cache, combined_data) == concat(combined_data)

\* The value of the global final_df while load_excel appends to the local
\* combined_data (lines 139-146): it is not assigned.
cache_during_build(cache, combined_data) == cache

\* One call of a helper function made on its own: the function, the
\* arguments it is called with, the objects the caller handed over as they
\* are now, and the value returned.
Call(fn, args) ==
  [fn |-> fn, args |-> args, pc |-> "called", objects |-> args, result |-> None]
NoCall ==
  [fn |-> "none", args |-> <<>>, pc |-> "idle", objects |-> <<>>, result |-> None]
Return(c, result, objects) ==
  [c EXCEPT !.pc = "returned", !.result = result, !.objects = objects]

\* ----------------------------------------------------------------- actions
File(state, wb) == [state |-> state, wb |-> wb]

\* _initialize_once on a first start: the table overrides is created empty
\* and the workbook is loaded; no request is being served.
Init ==
  /\ excel_file = File("ok", WB_A)
  /\ final_df = load_excel(File("ok", WB_A))
  /\ overrides = init_db({})
  /\ now = 0
  /\ response = NoResponse
  /\ reader = ReaderIdle
  /\ loads = [t \in Threads |-> LoadIdle]
  /\ editor = EditorIdle
  /\ acked = {}
  /\ cache_whole = TRUE
  /\ edits = [e \in EditThreads |-> EditIdle]
  /\ leave = NoLeave
  /\ call = NoCall

\* POST /update: the whole handler.
Update(req, env) ==
  LET out == update_excel(req, now, env)
  IN /\ out.file # excel_file => now < MaxEdits
     /\ response' = out.resp
     /\ excel_file' = out.file
     /\ overrides' = out.table
     /\ final_df' = out.df
     /\ now' = IF out.file # excel_file THEN now + 1 ELSE now
     /\ UNCHANGED <<conc_vars, call, edits, leave>>

\* GET /data: the whole handler.
GetAllData(env) ==
  /\ response' = get_all_data(env.db_up)
  /\ UNCHANGED <<excel_file, final_df, overrides, now>>
  /\ UNCHANGED <<conc_vars, call, edits, leave>>

\* ReloadHandler.on_modified: the watcher reloads the cache.
OnModified ==
  /\ final_df' = load_excel(excel_file)
  /\ UNCHANGED <<excel_file, overrides, now, response>>
  /\ UNCHANGED <<conc_vars, call, edits, leave>>

\* The process is started again: _initialize_once runs init_db on the
\* database file as it is, then load_excel.
Restart ==
  /\ overrides' = init_db(overrides)
  /\ final_df' = load_excel(excel_file)
  /\ UNCHANGED <<excel_file, now, response>>
  /\ UNCHANGED <<conc_vars, call, edits, leave>>

\* The external process regenerates the workbook.
Regenerate(wb) ==
  /\ excel_file' = File("ok", wb)
  /\ UNCHANGED <<final_df, overrides, now, response>>
  /\ UNCHANGED <<conc_vars, call, edits, leave>>

\* The workbook is removed, or replaced by a file that is no workbook.
BreakFile(state) ==
  /\ excel_file.state = "ok"
  /\ excel_file' = File(state, NoWorkbook)
  /\ UNCHANGED <<final_df, overrides, now, response>>
  /\ UNCHANGED <<conc_vars, call, edits, leave>>

Next ==
  \/ \E req \in Requests,
        env \in {Env(FALSE, TRUE), Env(TRUE, TRUE), Env(FALSE, FALSE)} :
       Update(req, env)
  \/ \E env \in {Calm, Env(FALSE, FALSE)} : GetAllData(env)
  \/ OnModified
  \/ Restart
  \/ Regenerate(WB_A)
  \/ \E state \in {"missing", "corrupt"} : BreakFile(state)

\* The service, one request or event at a time.
Spec == Init /\ [][Next]_vars

\* --------------------------------------------------- the handlers, by steps
\* The threads of the service interleaved statement by statement: one
\* GET /data, one POST /update and the watcher, with the database usable
\* and the workbook not locked.

\* A load_excel that ends in thread t: an editor returns to update_excel.
Returned(t) ==
  IF t = "editor" THEN [editor EXCEPT !.pc = after("reload")] ELSE editor

\* load_excel, lines 133-139: the file is looked for; when it is missing the
\* cache becomes an empty table and the function returns.
LoadBegin(t) ==
  /\ loads[t].pc = "idle"
  /\ t = "editor" => editor.pc = "reload"
  /\ IF excel_file.state = "missing"
       THEN /\ final_df' = EmptyDataFrame
            /\ cache_whole' = TRUE
            /\ editor' = Returned(t)
            /\ UNCHANGED loads
       ELSE /\ loads' = [loads EXCEPT ![t] = Load("reading", SHEETS, <<>>)]
            /\ UNCHANGED <<final_df, cache_whole, editor>>
  /\ UNCHANGED <<excel_file, overrides, now, response, reader, acked, call,
                 edits, leave>>

\* load_excel, lines 140-146: one turn of the loop over SHEETS.
LoadSheet(t) ==
  /\ loads[t].pc = "reading"
  /\ loads[t].todo # <<>>
  /\ LET sheet == Head(loads[t].todo)
         combined_data ==
           loads[t].combined_data
             \o (IF can_read(excel_file, sheet)
                   THEN <<read_excel(excel_file.wb[sheet], sheet)>>
                   ELSE <<>>)
     IN /\ loads' = [loads EXCEPT ![t] = Load("reading", Tail(loads[t].todo),
                                              combined_data)]
        /\ final_df' = cache_during_build(final_df, combined_data)
        /\ cache_whole' = (cache_whole /\ final_df' = final_df)
  /\ UNCHANGED <<excel_file, overrides, now, response, reader, editor, acked, call,
                 edits, leave>>

\* load_excel, line 148: the one assignment of the finished table.
LoadPublish(t) ==
  /\ loads[t].pc = "reading"
  /\ loads[t].todo = <<>>
  /\ final_df' = concat(loads[t].combined_data)
  /\ cache_whole' = TRUE
  /\ loads' = [loads EXCEPT ![t] = LoadIdle]
  /\ editor' = Returned(t)
  /\ UNCHANGED <<excel_file, overrides, now, response, reader, acked, call,
                 edits, leave>>

\* get_all_data, line 224: final_df.empty is evaluated.
ReadCheck ==
  /\ reader.pc = "idle"
  /\ reader' = Reader(IF ~empty(final_df) THEN "to_dict" ELSE "merge",
                      <<>>, cache_whole, acked)
  /\ UNCHANGED <<excel_file, final_df, overrides, now, response, loads,
                 editor, acked, cache_whole, call,
                 edits, leave>>

\* get_all_data, line 224: final_df.to_dict(orient="records"), on the table
\* the global names now.
ReadDump ==
  /\ reader.pc = "to_dict"
  /\ reader' = [reader EXCEPT !.pc = "merge", !.base = final_df.records,
                               !.whole = cache_whole]
  /\ UNCHANGED <<excel_file, final_df, overrides, now, response, loads,
                 editor, acked, cache_whole, call,
                 edits, leave>>

\* get_all_data, lines 225-226: the SELECT, the merge and the response.
ReadMerge ==
  /\ reader.pc = "merge"
  /\ reader' = ReaderIdle
  /\ UNCHANGED <<excel_file, final_df, overrides, now, response, loads, editor,
                 acked, cache_whole, call,
                 edits, leave>>

\* update_excel, lines 240-303, for a request that reaches the save and
\* whose save succeeds.
EditSave(req) ==
  LET out == update_excel(req, now, Calm)
  IN /\ editor.pc = "idle"
     /\ now < MaxEdits
     /\ out.resp.status = "success"
     /\ excel_file' = out.file
     /\ now' = now + 1
     /\ editor' = Editor(after("save"), out.patch, out.resp)
     /\ UNCHANGED <<final_df, overrides, response, reader, loads, acked,
                    cache_whole, call,
                 edits, leave>>

\* update_excel, lines 312-322: the INSERT and its commit.
EditCommit ==
  /\ editor.pc = "commit"
  /\ overrides' = upsert(overrides, editor.patch)
  /\ editor' = [editor EXCEPT !.pc = after("commit")]
  /\ UNCHANGED <<excel_file, final_df, now, response, reader, loads, acked,
                 cache_whole, call,
                 edits, leave>>

\* update_excel, lines 329-338: the success response is sent.
EditRespond ==
  /\ editor.pc = "respond"
  /\ acked' = acked \cup {editor.patch}
  /\ editor' = [editor EXCEPT !.pc = after("respond")]
  /\ UNCHANGED <<excel_file, final_df, overrides, now, response, reader, loads,
                 cache_whole, call,
                 edits, leave>>

NextConc ==
  \/ \E t \in Threads : LoadBegin(t)
  \/ \E t \in Threads : LoadSheet(t)
  \/ \E t \in Threads : LoadPublish(t)
  \/ ReadCheck
  \/ ReadDump
  \/ ReadMerge
  \/ EditSave(Request(T_corp, K_C001, Q_Status, V_SharedClient))
  \/ EditCommit
  \/ EditRespond
  \/ Regenerate(WB_A)
  \/ BreakFile("missing")

SpecConc == Init /\ [][NextConc]_vars

\* ------------------------------------------------------- the merge, alone
\* apply_overrides on the caches and tables the service can hold: the cache
\* is a load of a workbook the external process wrote, before or after an
\* edit of its status cell, and the table holds rows of earlier edits, one
\* per primary key, one of them for a client C009 that no workbook has.
MergeWorkbooks ==
  UNION {{Workbook(corp, WS_EB),
          Workbook(write_cells(corp, 2, 1, V_SharedClient, TimeStr(0)), WS_EB)} :
         corp \in {WS_corp_A, WS_corp_B}}

MergeTables ==
  LET patches ==
  {Patch(T_corp, K_C001, H_STATUS, H_STATUS, V_SharedClient, 0),
   Patch(T_corp, K_C001, H_STATUS, H_Status, V_SharedClient, 0),
   Patch(T_corp, strip(K_c001_padded), H_STATUS, H_STATUS, V_SharedClient, 0),
   Patch(T_corp, K_C001, canon(Q_premium), H_Premium, V_CrossSell, 0),
   Patch(T_corp, K_C001, canon(Q_premium), H_Premium, V_SharedClient, 1),
   Patch(T_EB, K_E001, H_STATUS, H_STATUS, V_SharedClient, 1),
   Patch(T_corp, K_C009, H_STATUS, H_STATUS, V_SharedClient, 1)}
  IN {table \in SUBSET patches :
        \A p, q \in table : SameKey(p, q) => p = q}

InitMerge ==
  /\ excel_file \in {File("ok", wb) : wb \in MergeWorkbooks}
  /\ final_df = load_excel(excel_file)
  /\ overrides \in MergeTables
  /\ now = MaxEdits
  /\ response = NoResponse
  /\ reader = ReaderIdle
  /\ loads = [t \in Threads |-> LoadIdle]
  /\ editor = EditorIdle
  /\ acked = {}
  /\ cache_whole = TRUE
  /\ edits = [e \in EditThreads |-> EditIdle]
  /\ leave = NoLeave
  /\ call = NoCall

NextMerge == GetAllData(Calm)

SpecMerge == InitMerge /\ [][NextMerge]_vars

\* ------------------------------------------------- the helpers, on their own
\* canon, find_header_index and apply_overrides are functions of their
\* arguments: each is called once, on an argument drawn from a bounded set.

\* The labels canon is called on have at most MaxLabelLen characters.
MaxLabelLen == 5

\* Spellings of the client code header.
L_CLIENT_CODE_hyphen == <<"C","L","I","E","N","T","-","C","O","D","E">>
ClientCodeLabels ==
  {<<"C","l","i","e","n","t"," ","C","o","d","e">>,
   L_CLIENT_CODE_hyphen,
   <<"c","l","i","e","n","t",","," ","c","o","d","e">>,
   H_CLIENT_CODE}

\* The labels of a lower-case letter, an upper-case letter, white space and
\* punctuation.
Labels ==
  UNION {{Text(f) : f \in [1..n -> {"a", "B", " ", "-"}]} : n \in 0..MaxLabelLen}

\* The header rows find_header_index is called on have at most MaxHeaders
\* cells.
MaxHeaders == 3

\* Header rows: their cells are labels, two of them with the canonical form
\* STATUS, and an empty cell.
HeaderRows ==
  UNION {{Text(f) : f \in [1..n -> {H_CLIENT_CODE, L_CLIENT_CODE_hyphen, H_STATUS,
                                    H_Status, H_Premium, None}]} :
           n \in 0..MaxHeaders}

\* The calls: canon on each label and on an empty cell; find_header_index on
\* each header row; apply_overrides on no rows and on the rows of a load of
\* each workbook of MergeWorkbooks, with each table of MergeTables.
HelperCalls ==
  {Call("canon", <<s>>) : s \in Labels \cup ClientCodeLabels \cup {None, NaN}}
  \cup
  {Call("find_header_index", <<[hdr |-> hdr, rows |-> <<>>], target_header>>) :
     hdr \in HeaderRows,
     target_header \in {H_CLIENT_CODE, Q_Status, Q_premium, Q_Nope,
                        H_STATUS_UPDATED_AT}}
  \cup
  {Call("apply_overrides", <<rows, table>>) :
     rows \in {<<>>} \cup {load_excel(File("ok", wb)).records : wb \in MergeWorkbooks},
     table \in MergeTables}

InitHelpers ==
  /\ excel_file = File("ok", WB_A)
  /\ final_df = load_excel(File("ok", WB_A))
  /\ overrides = {}
  /\ now = 0
  /\ response = NoResponse
  /\ reader = ReaderIdle
  /\ loads = [t \in Threads |-> LoadIdle]
  /\ editor = EditorIdle
  /\ acked = {}
  /\ cache_whole = TRUE
  /\ edits = [e \in EditThreads |-> EditIdle]
  /\ leave = NoLeave
  /\ call \in HelperCalls

\* s = canon(label)
CallCanon ==
  /\ call.fn = "canon"
  /\ call.pc = "called"
  /\ call' = Return(call, canon(call.args[1]), call.args)
  /\ UNCHANGED <<excel_file, final_df, overrides, now, response>>
  /\ UNCHANGED <<conc_vars, edits, leave>>

\* idx = find_header_index(ws, target_header): the cells of row 1 are read.
CallFindHeader ==
  /\ call.fn = "find_header_index"
  /\ call.pc = "called"
  /\ call' = Return(call, find_header_index(call.args[1], call.args[2]),
                    call.args)
  /\ UNCHANGED <<excel_file, final_df, overrides, now, response>>
  /\ UNCHANGED <<conc_vars, edits, leave>>

\* merged = apply_overrides(rows), the table overrides holding table.
CallMerge ==
  /\ call.fn = "apply_overrides"
  /\ call.pc = "called"
  /\ call' = Return(call, apply_overrides(call.args[1], call.args[2]),
                    <<rows_after_merge(call.args[1], call.args[2]),
                      table_after_merge(call.args[1], call.args[2])>>)
  /\ UNCHANGED <<excel_file, final_df, overrides, now, response>>
  /\ UNCHANGED <<conc_vars, edits, leave>>

NextHelpers ==
  \/ CallCanon
  \/ CallFindHeader
  \/ CallMerge

SpecHelpers == InitHelpers /\ [][NextHelpers]_vars

\* ------------------------------------------ sheets with repeated row keys
\* The service on workbooks whose sheet corp has a row with an empty client
\* code cell and three rows for one client, the second spelled with other
\* case and blanks around it: WS_corp_D, and WB_T, the same rows with a timestamp
\* column labelled in lower case with a trailing dot.
V_20 == <<"2","0">>
V_30 == <<"3","0">>
V_40 == <<"4","0">>

WS_corp_D == [hdr |-> <<H_CLIENT_CODE, H_STATUS, H_Premium>>,
              rows |-> << <<None, None, V_10>>,
                          <<K_C001, None, V_20>>,
                          <<K_c001_padded, None, V_30>>,
                          <<K_C001, None, V_40>> >>]
WB_T == Workbook([hdr |-> <<H_CLIENT_CODE, H_status_updated_at_dot, H_STATUS,
                            H_Premium>>,
                  rows |-> << <<None, None, None, V_10>>,
                              <<K_C001, None, None, V_20>>,
                              <<K_c001_padded, None, None, V_30>>,
                              <<K_C001, None, None, V_40>> >>],
                 WS_EB)
RowWorkbooks == {Workbook(WS_corp_D, WS_EB), WB_T}

\* Edits of the status and of the premium of the client, by either spelling
\* of the key; an edit that carries no new_value; an edit for a client that
\* has no row.
RowRequests ==
  {Request(T_corp, K_C001, Q_Status, V_SharedClient),
   Request(T_corp, K_c001_padded, Q_premium, V_SharedClient),
   Request(T_corp, K_C001, Q_premium, None),
   Request(T_corp, K_C009, Q_premium, V_10)}

InitRows ==
  /\ excel_file \in {File("ok", wb) : wb \in RowWorkbooks}
  /\ final_df = load_excel(excel_file)
  /\ overrides = {}
  /\ now = 0
  /\ response = NoResponse
  /\ reader = ReaderIdle
  /\ loads = [t \in Threads |-> LoadIdle]
  /\ editor = EditorIdle
  /\ acked = {}
  /\ cache_whole = TRUE
  /\ edits = [e \in EditThreads |-> EditIdle]
  /\ leave = NoLeave
  /\ call = NoCall

NextRows ==
  \/ \E req \in RowRequests : Update(req, Calm)
  \/ GetAllData(Calm)
  \/ OnModified
  \/ \E wb \in RowWorkbooks : Regenerate(wb)

SpecRows == InitRows /\ [][NextRows]_vars

\* ------------------------------------------------------- two edits at once
\* Two threads serve one POST /update each, statement by statement, with the
\* database usable and the workbook not locked: e1 edits the status of
\* client C001 of sheet corp, e2 the premium of the same row or the status
\* of client E001 of sheet EB.
EditsOf(e) ==
  IF e = "e1"
    THEN {Request(T_corp, K_C001, Q_Status, V_SharedClient)}
    ELSE {Request(T_corp, K_C001, Q_premium, V_CrossSell),
          Request(T_corp, K_C001, Q_premium, V_SharedClient),
          Request(T_EB, K_E001, Q_Status, V_SharedClient)}

\* The statement a thread is at after pc; a thread that has responded is
\* done.
Then(pc) == IF after(pc) = "idle" THEN "done" ELSE after(pc)

\* The 1-based row and the 0-based column that lines 265-280 resolve for
\* request req on workbook object wb.
ResolvedRow(req, wb) ==
  find_row(wb[req.sheet], find_header_index(wb[req.sheet], H_CLIENT_CODE),
           strip(req.client_code))
ResolvedCol(req, wb) == find_header_index(wb[req.sheet], req.column)

\* update_excel, lines 240-260: the request passes the checks and
\* load_workbook reads the file into a workbook object of the thread.
EditLoadWorkbook(e, req) ==
  /\ edits[e].pc = "idle"
  /\ now + Cardinality({x \in EditThreads : edits[x].pc = "save"}) < MaxEdits
  /\ update_excel(req, now, Calm).resp.status = "success"
  /\ edits' = [edits EXCEPT ![e] = Edit("save", req, excel_file.wb, None)]
  /\ UNCHANGED <<excel_file, final_df, overrides, now, response, call>>
  /\ UNCHANGED <<conc_vars, leave>>

\* update_excel, lines 261-303: the cells are written in the workbook object
\* of the thread and wb.save writes that object over the file.
EditSaveWorkbook(e) ==
  /\ edits[e].pc = "save"
  /\ LET req == edits[e].req
         wb == edits[e].wb
         target_col_idx == ResolvedCol(req, wb)
         ws2 == write_cells(wb[req.sheet], ResolvedRow(req, wb), target_col_idx,
                            req.new_value, TimeStr(now))
         saved == [wb EXCEPT ![req.sheet] = ws2]
         p == Patch(req.sheet, strip(req.client_code), canon(req.column),
                    worksheet_headers(ws2)[target_col_idx + 1],
                    str(req.new_value), now)
     IN /\ excel_file' = File("ok", saved)
        /\ edits' = [edits EXCEPT ![e] = Edit(Then("save"), req, saved, p)]
  /\ now' = now + 1
  /\ UNCHANGED <<final_df, overrides, response, call>>
  /\ UNCHANGED <<conc_vars, leave>>

\* update_excel, lines 312-322: the INSERT and its commit.
EditCommitPatch(e) ==
  /\ edits[e].pc = "commit"
  /\ overrides' = upsert(overrides, edits[e].patch)
  /\ edits' = [edits EXCEPT ![e].pc = Then("commit")]
  /\ UNCHANGED <<excel_file, final_df, now, response, call>>
  /\ UNCHANGED <<conc_vars, leave>>

\* update_excel, line 326: load_excel().
EditReloadCache(e) ==
  /\ edits[e].pc = "reload"
  /\ final_df' = load_excel(excel_file)
  /\ edits' = [edits EXCEPT ![e].pc = Then("reload")]
  /\ UNCHANGED <<excel_file, overrides, now, response, call>>
  /\ UNCHANGED <<conc_vars, leave>>

\* update_excel, lines 329-338: the success response is sent.
EditRespondSuccess(e) ==
  /\ edits[e].pc = "respond"
  /\ acked' = acked \cup {edits[e].patch}
  /\ edits' = [edits EXCEPT ![e].pc = Then("respond")]
  /\ UNCHANGED <<excel_file, final_df, overrides, now, response, call>>
  /\ UNCHANGED <<reader, loads, editor, cache_whole, leave>>

NextEdits ==
  \/ \E e \in EditThreads : \E req \in EditsOf(e) : EditLoadWorkbook(e, req)
  \/ \E e \in EditThreads : EditSaveWorkbook(e)
  \/ \E e \in EditThreads : EditCommitPatch(e)
  \/ \E e \in EditThreads : EditReloadCache(e)
  \/ \E e \in EditThreads : EditRespondSuccess(e)

SpecEdits == Init /\ [][NextEdits]_vars

\* ------------------------------------------------------- rejected requests
\* The service with the requests of Requests, on a workbook that may be
\* regenerated as WB_A or as WB_N, whose sheet corp spells the client code
\* header with a hyphen, and may be removed.
WB_N == Workbook([hdr |-> <<L_CLIENT_CODE_hyphen, H_STATUS, H_Premium>>,
                  rows |-> << <<K_C001, None, V_10>> >>],
                 WS_EB)

NextRejects ==
  \/ \E req \in Requests : Update(req, Calm)
  \/ OnModified
  \/ \E wb \in {WB_A, WB_N} : Regenerate(wb)
  \/ BreakFile("missing")

SpecRejects == Init /\ [][NextRejects]_vars

\* ------------------------------------------- columns of punctuation only
\* The service with requests whose column is punctuation only, on a
\* workbook that may be regenerated as WB_A or as WB_U.
\* WB_U: the sheet corp has a column whose header cell is empty.
WB_U == Workbook([hdr |-> <<H_CLIENT_CODE, None, H_STATUS, H_Premium>>,
                  rows |-> << <<K_C001, V_20, None, V_10>> >>],
                 WS_EB)

\* Requests whose column is punctuation only.
PunctRequests ==
  {Request(T_corp, K_C001, column, V_SharedClient) : column \in {<<"-">>, <<".">>}}

NextPunct ==
  \/ \E req \in PunctRequests : Update(req, Calm)
  \/ GetAllData(Calm)
  \/ OnModified
  \/ \E wb \in {WB_A, WB_U} : Regenerate(wb)

SpecPunct == Init /\ [][NextPunct]_vars

\* ------------------------------------------- the leave planner's script runs
\* Two of the employees of the sidebar.
Employees == {"Katlego Moleko", "Tapiwa Mlotshwa"}

\* f"{r[0]} to {r[1]}"
range_option(r) == strftime(r[1]).text \o <<" ","t","o"," ">> \o strftime(r[2]).text

\* The session starts: leave_data is loaded from the file (lines 88-89).
\* There is no file, or it holds rows written by save_leave_data, or it
\* holds a row whose date cannot be read as well.
InitLeave ==
  /\ \E csv \in
         { NoCsvFile,
           CsvFile(<<LeaveRow("Katlego Moleko", strftime(Ts(1)))>>),
           CsvFile(<<LeaveRow("Tapiwa Mlotshwa", strftime(Ts(2))),
                     LeaveRow("Katlego Moleko", strftime(Ts(1))),
                     LeaveRow("Katlego Moleko", DateStr(<<"n","/","a">>))>>) } :
       leave = LeaveTable(load_leave_data(csv), csv)
  /\ excel_file = File("ok", WB_A)
  /\ final_df = load_excel(File("ok", WB_A))
  /\ overrides = init_db({})
  /\ now = 0
  /\ response = NoResponse
  /\ reader = ReaderIdle
  /\ loads = [t \in Threads |-> LoadIdle]
  /\ editor = EditorIdle
  /\ acked = {}
  /\ cache_whole = TRUE
  /\ edits = [e \in EditThreads |-> EditIdle]
  /\ call = NoCall

\* A run of the script with no button pressed: the dates of the session's
\* table are parsed again (lines 91-92).
Rerun ==
  /\ leave' = LeaveTable(parse_dates(leave.data), leave.csv)
  /\ UNCHANGED <<excel_file, final_df, overrides, now, response, conc_vars,
                 call, edits>>

\* A run with "Add Leave" pressed (lines 91-92, 97-108).
AddLeave(selected_employee, leave_dates) ==
  /\ Len(leave_dates) = 2 => leave_dates[1].day <= leave_dates[2].day
  /\ LET df == parse_dates(leave.data)
     IN leave' =
          IF Len(leave_dates) = 2
            THEN save_leave_data(add_dates(df, selected_employee,
                                           leave_dates[1].day, leave_dates[2]))
            ELSE LeaveTable(df, leave.csv)
  /\ UNCHANGED <<excel_file, final_df, overrides, now, response, conc_vars,
                 call, edits>>

\* A run with "Delete Range" pressed (lines 91-92, 263-285).
DeleteRange(selected_employee_del, selected_range) ==
  /\ LET df == parse_dates(leave.data)
         leave_ranges == get_leave_ranges(df, selected_employee_del)
         range_options == {range_option(leave_ranges[i]) : i \in 1..Len(leave_ranges)}
         \* selected_range.split(" to ") and strptime of the two parts
         dates == <<strptime(SubSeq(selected_range, 1, 10)),
                    strptime(SubSeq(selected_range, 15, 24))>>
     IN /\ df # <<>>
        /\ \E i \in 1..Len(df) : df[i].Employee = selected_employee_del
        /\ selected_range \in range_options
        /\ leave' = save_leave_data(delete_range(df, selected_employee_del,
                                                 dates[1], dates[2]))
  /\ UNCHANGED <<excel_file, final_df, overrides, now, response, conc_vars,
                 call, edits>>

\* The date picker holds nothing, one date, or two dates; the range
\* selectbox shows one of the options range_option can give.
NextLeave ==
  \/ Rerun
  \/ \E e \in Employees,
        d \in {<<>>} \cup {<<Ts(a)>> : a \in 1..MaxDay}
                     \cup {<<Ts(a), Ts(b)>> : a, b \in 1..MaxDay} :
       AddLeave(e, d)
  \/ \E e \in Employees, a \in 1..MaxDay, b \in 1..MaxDay :
       DeleteRange(e, range_option(<<Ts(a), Ts(b)>>))

SpecLeave == InitLeave /\ [][NextLeave]_vars

\* ------------------------------------------------------------------ claims
\* The rows of a /data body that the row resolver of update_excel accepts
\* for the key of patch p (lines 276-280), on the sheet of p.
RowsOfPatch(body, p) ==
  {i \in 1..Len(body) :
     /\ Get(body[i], H_SOURCE_SHEET, None) = p.sheet
     /\ Get(body[i], H_CLIENT_CODE, None) # None
     /\ lower(strip(str(body[i][H_CLIENT_CODE]))) = lower(p.client_code)}

\* C1: once an edit has reported success, so that its patch is in the store,
\* and the workbook has been regenerated with the original cell values and
\* the cache reloaded from it, the next /data read returns the edited value
\* in the column of the edit, on the row the edit was accepted for.
C1_ReloadSurvivesOverride ==
  final_df = load_excel(File("ok", WB_A)) =>
    LET body == get_all_data(TRUE).body
    IN \A p \in overrides :
         /\ RowsOfPatch(body, p) # {}
         /\ \A i \in RowsOfPatch(body, p) :
              \A k \in DOMAIN body[i] :
                canon(k) = p.column_canon => body[i][k] = p.new_value

\* C2: the store never holds two patches with the same (sheet, client_code,
\* column_canon), and an edit that succeeds leaves exactly one patch for its
\* coordinates, carrying its value, its column label and its timestamp,
\* every other patch being as it was.
C2_UpsertKeepsLatest ==
  /\ [](\A p, q \in overrides : SameKey(p, q) => p = q)
  /\ [][(now' = now + 1 /\ response'.status = "success") =>
          LET mine == {p \in overrides' :
                         /\ p.sheet = response'.sheet
                         /\ p.client_code = response'.client_code
                         /\ p.column_canon = canon(response'.column_actual)}
          IN /\ mine = {Patch(response'.sheet, response'.client_code,
                              canon(response'.column_actual),
                              response'.column_actual,
                              str(response'.new_value), now)}
             /\ (overrides' \ mine) \subseteq overrides
             /\ \A q \in overrides \ overrides' :
                  \E p \in mine : SameKey(p, q)]_vars

\* A second edit of the premium cell of C001 has replaced the patch of the
\* first: one patch, with the value and the time of the second save.
C2_SecondEditReplaced ==
  /\ now = 2
  /\ response.status = "success"
  /\ overrides = {Patch(T_corp, K_C001, canon(Q_premium), H_Premium,
                        V_SharedClient, 1)}
  /\ excel_file.state = "ok"
  /\ excel_file.wb[T_corp].rows[1][3] = V_SharedClient

\* C3: in the body of a /data read, the value of column k of a base row is
\* the value of the patch for (sheet of the row, client code of the row,
\* canon(k)) when there is one, and the base value otherwise.
C3_MergeByCanonicalColumn ==
  response.route = "/data" =>
    LET base == final_df.records
    IN /\ Len(response.body) = Len(base)
       /\ \A i \in 1..Len(base) :
            \A k \in DOMAIN base[i] :
              LET hits == {p \in overrides :
                             /\ p.sheet = str(Get(base[i], H_SOURCE_SHEET, <<>>))
                             /\ p.client_code = str(Get(base[i], H_CLIENT_CODE, <<>>))
                             /\ p.column_canon = canon(k)}
              IN response.body[i][k] =
                   IF hits = {} THEN base[i][k]
                   ELSE (CHOOSE p \in hits : TRUE).new_value

\* The request of claim C4.
ReqCrossSell == Request(T_corp, K_C001, Q_Status, V_CrossSell)

\* C4: when the sheet corp has a STATUS column and a row with CLIENT CODE
\* C001, the request {corp, C001, Status, Cross-Sell} reports success,
\* leaves the patch (corp, C001, STATUS) with value Cross-Sell in the store,
\* and the /data read that follows returns Cross-Sell in the STATUS column
\* of that row.
C4_CrossSellEditSucceeds ==
  [][(/\ excel_file.state = "ok"
      /\ T_corp \in DOMAIN excel_file.wb
      /\ find_header_index(excel_file.wb[T_corp], H_STATUS) # NoneIdx
      /\ find_header_index(excel_file.wb[T_corp], H_CLIENT_CODE) # NoneIdx
      /\ find_row(excel_file.wb[T_corp],
                  find_header_index(excel_file.wb[T_corp], H_CLIENT_CODE),
                  K_C001) # NoneIdx
      /\ Update(ReqCrossSell, Calm))
     => /\ response'.status = "success"
        /\ \E p \in overrides' :
             /\ p.sheet = T_corp
             /\ p.client_code = K_C001
             /\ p.column_canon = H_STATUS
             /\ p.new_value = V_CrossSell
        /\ LET body == (get_all_data(TRUE).body)'
           IN \A i \in 1..Len(body) :
                (body[i][H_SOURCE_SHEET] = T_corp /\ body[i][H_CLIENT_CODE] = K_C001)
                  => \A k \in DOMAIN body[i] :
                       canon(k) = H_STATUS => body[i][k] = V_CrossSell]_vars

\* C5: an edit whose save fails because the workbook is locked answers with
\* an error, and the patch of the edit is in the store afterwards.
C5_LockedSaveStillRecordsPatch ==
  [][\A req \in Requests :
       (response'.message.kind = "locked" /\ Update(req, Env(TRUE, TRUE)))
         => /\ response'.status = "error"
            /\ \E p \in overrides' :
                 /\ p.sheet = req.sheet
                 /\ p.client_code = strip(req.client_code)
                 /\ p.column_canon = canon(req.column)
                 /\ p.new_value = str(req.new_value)]_vars

\* C6: a reload that finds the workbook missing or unreadable leaves the
\* cache and the patch store as they were, so that /data goes on answering
\* with the last loaded rows merged with the patches.
C6_FailedReloadKeepsCache ==
  [][(OnModified /\ excel_file.state # "ok")
       => /\ final_df' = final_df
          /\ overrides' = overrides
          /\ (get_all_data(TRUE).body)' = get_all_data(TRUE).body]_vars

\* C7: a /data read made while the patch store cannot be used answers 200
\* with the unmerged base rows of the cache.
C7_ReadDegradesWithoutStore ==
  [][(~empty(final_df) /\ GetAllData(Env(FALSE, FALSE)))
       => /\ response'.code = 200
          /\ response'.body = final_df.records]_vars

\* C8: whenever the last response is the success response of an edit, the
\* patch of that edit is in the store: an edit whose INSERT failed has
\* answered with an error.
C8_SuccessMeansPersisted ==
  (response.route = "/update" /\ response.status = "success") =>
    \E p \in overrides :
      /\ p.sheet = response.sheet
      /\ p.client_code = response.client_code
      /\ p.column_actual = response.column_actual
      /\ p.new_value = str(response.new_value)
      /\ TimeStr(p.updated_at) = response.updated_at

\* An edit has saved the workbook, its INSERT has failed, and it has
\* answered with the error of the handler: no patch is in the store.
C8_StoreWriteFailed ==
  /\ response = Error(500, "exception", <<>>)
  /\ now = 1
  /\ overrides = {}
  /\ excel_file.state = "ok"
  /\ excel_file.wb[T_corp] # WS_corp_A

\* C9: the rows a /data read has taken from the cache are those of a table
\* that a finished load_excel had assigned, whatever reloads run during the
\* read: the table of before a reload or the table of after it.
C9_ReadsSeeWholeTables ==
  reader.pc = "merge" => reader.whole

\* A read has taken its rows while the watcher is in the middle of a reload,
\* one sheet read and one to go.
C9_ReadDuringReload ==
  /\ reader.pc = "merge"
  /\ reader.base # <<>>
  /\ loads["watcher"].pc = "reading"
  /\ Len(loads["watcher"].combined_data) = 1
  /\ Len(loads["watcher"].todo) = 1

\* C10: when an edit is at its reload or at its response, its patch is
\* committed; and while a /data read runs, every edit that had reported
\* success when the read started has its patch in the store, or a later
\* patch for the same key.
C10_CommitBeforeReloadAndResponse ==
  /\ editor.pc \in {"reload", "respond"} => editor.patch \in overrides
  /\ reader.pc \in {"to_dict", "merge"} =>
       \A p \in reader.acked :
         \E q \in overrides : SameKey(p, q) /\ q.updated_at >= p.updated_at

\* A read that started after an edit had reported success is at its SELECT,
\* and a second edit is at its reload.
C10_ReadAfterSuccess ==
  /\ reader.pc = "merge"
  /\ reader.acked # {}
  /\ editor.pc = "reload"
  /\ editor.patch \notin reader.acked

\* C11: canon gives one and the same canonical form for the spellings
\* "Client Code", "CLIENT-CODE", "client, code" and "CLIENT CODE" of a header.
C11_ClientCodeSpellingsAgree ==
  (call.fn = "canon" /\ call.pc = "returned" /\ call.args[1] \in ClientCodeLabels)
    => \A s \in ClientCodeLabels : call.result = canon(s)

\* C12: canon returns a text for every argument, the empty text for None and
\* for the empty text, and what it returns is its own canonical form.
C12_CanonTotalIdempotent ==
  (call.fn = "canon" /\ call.pc = "returned") =>
    /\ call.result \in Seq({call.result[i] : i \in DOMAIN call.result})
    /\ call.result # None
    /\ call.args[1] \in {None, <<>>} => call.result = <<>>
    /\ canon(call.result) = call.result

\* canon has returned A B for a label with lower case, white space and
\* punctuation, and the empty text for None.
C12_CanonOfMixedLabel ==
  /\ call.fn = "canon"
  /\ call.pc = "returned"
  /\ call.args[1] = <<"a", " ", "-", " ", "B">>
  /\ call.result = <<"A", " ", "B">>

\* C13: find_header_index returns None exactly when no header has the
\* canonical form of the requested label; otherwise it returns the position
\* of a header that has it, no header before that one has it, and the sheet
\* is as it was.
C13_FirstMatchingHeader ==
  (call.fn = "find_header_index" /\ call.pc = "returned") =>
    LET hdr == call.args[1].hdr
        target_c == canon(call.args[2])
        idx == call.result
    IN /\ idx = NoneIdx <=> \A i \in 1..Len(hdr) : canon(hdr[i]) # target_c
       /\ idx # NoneIdx =>
            /\ idx \in 0..(Len(hdr) - 1)
            /\ canon(hdr[idx + 1]) = target_c
            /\ \A i \in 1..idx : canon(hdr[i]) # target_c
       /\ call.objects = call.args

\* The lookup of Status in a row whose second and third header both have the
\* canonical form STATUS has returned the second.
C13_DuplicateHeaders ==
  /\ call.fn = "find_header_index"
  /\ call.pc = "returned"
  /\ call.args = <<[hdr |-> <<H_Premium, H_Status, H_STATUS>>, rows |-> <<>>],
                   Q_Status>>
  /\ call.result = 1

\* The data rows of ws (1 is row 2 of the sheet) whose client code cell is
\* not empty and equals the key when both are trimmed and case is ignored.
MatchingRows(ws, key) ==
  {j \in 1..Len(ws.rows) :
     LET cell_val == ws.rows[j][find_header_index(ws, H_CLIENT_CODE) + 1]
     IN cell_val # None /\ lower(strip(str(cell_val))) = lower(strip(key))}

\* C14: an edit whose sheet and column are found writes the first data row,
\* from row 2 down, whose client code matches the key of the request with
\* blanks trimmed and case ignored, and no other row; when no row matches it
\* answers 404 client code not found and the workbook is as it was.
C14_FirstMatchingRow ==
  [][\A req \in RowRequests :
       Update(req, Calm) =>
         LET ws == excel_file.wb[req.sheet]
             col == find_header_index(ws, req.column) + 1
             hits == MatchingRows(ws, req.client_code)
         IN IF hits = {}
              THEN /\ response' = Error(404, "client_code_not_found",
                                        strip(req.client_code))
                   /\ excel_file' = excel_file
              ELSE LET ws2 == excel_file'.wb[req.sheet]
                       first == Min(hits)
                   IN /\ response'.status = "success"
                      /\ ws2.rows[first][col] = req.new_value
                      /\ ws2.rows[first] # PadTo(ws.rows[first], Len(ws2.hdr))
                      /\ \A j \in 1..Len(ws.rows) :
                           j # first =>
                             ws2.rows[j] = PadTo(ws.rows[j], Len(ws2.hdr))]_vars

\* The edit of the premium under the key " c001 " has been written to the
\* first of the three rows of the client, whose cell reads C001, and the two
\* rows after it hold their values.
C14_PaddedKeyFirstOfThree ==
  /\ response.status = "success"
  /\ response.client_code = strip(K_c001_padded)
  /\ excel_file.state = "ok"
  /\ excel_file.wb[T_corp].hdr[3] = H_Premium
  /\ excel_file.wb[T_corp].rows[2][1] = K_C001
  /\ excel_file.wb[T_corp].rows[2][3] = V_SharedClient
  /\ excel_file.wb[T_corp].rows[3][3] = V_30
  /\ excel_file.wb[T_corp].rows[4][3] = V_40

\* The coordinates (sheet, client_code, column_canon) of the rows of a table.
Coordinates(table) ==
  {<<p.sheet, p.client_code, p.column_canon>> : p \in table}

\* C15: no step of the service (an edit, a read, a reload, a restart, a
\* change of the workbook) removes a coordinate from the patch store, be
\* there a base row for it or not.
C15_CoordinatesNeverShrink ==
  [][Coordinates(overrides) \subseteq Coordinates(overrides')]_vars

\* Two patches are in the store, the cache has no row for them, and a read
\* has been served.
C15_OrphanedPatchesKept ==
  /\ Cardinality(Coordinates(overrides)) = 2
  /\ empty(final_df)
  /\ response.route = "/data"
  /\ response.code = 200

\* C16: the success response of an edit names the label the sheet has for
\* the resolved column, and its new_value is the value that the /data read
\* made next returns in that column of the row the edit wrote.
C16_ResponseValueIsReadValue ==
  [][\A req \in RowRequests :
       (Update(req, Calm) /\ response'.status = "success") =>
         LET ws == excel_file.wb[req.sheet]
             first == Min(MatchingRows(ws, req.client_code))
             actual_header == ws.hdr[find_header_index(ws, req.column) + 1]
             body == (get_all_data(TRUE).body)'
         IN /\ response'.column_actual = actual_header
            /\ body[first][H_SOURCE_SHEET] = req.sheet
            /\ body[first][str(actual_header)] = response'.new_value]_vars

\* Whether the text part occurs in the text.
Contains(text, part) ==
  \E i \in 0..(Len(text) - Len(part)) : SubSeq(text, i + 1, i + Len(part)) = part

\* C17: the response to an edit whose sheet is not in the workbook is an
\* error that names the sheets the workbook has, and the response to an edit
\* whose column is not in the sheet is an error that names the columns of a
\* sheet of the workbook.
C17_MatchErrorsListAvailable ==
  [][/\ (response' # response /\ response'.message.kind = "sheet_not_found") =>
          /\ response'.status = "error"
          /\ \A sheet \in DOMAIN excel_file.wb :
               Contains(response'.message.arg, sheet)
     /\ (response' # response /\ response'.message.kind = "column_not_found") =>
          /\ response'.status = "error"
          /\ \E sheet \in DOMAIN excel_file.wb :
               \A i \in 1..Len(excel_file.wb[sheet].hdr) :
                 Contains(response'.message.arg, str(excel_file.wb[sheet].hdr[i]))]_vars

\* C18: after an edit that reports success the sheet has a header with the
\* canonical form STATUS_UPDATED_AT: the header the sheet had, in its place
\* and with its label, when it had one, and otherwise a header labelled
\* STATUS_UPDATED_AT in the column after the last; the headers the sheet
\* had are where they were, and the cell of the edited row in that column
\* holds the timestamp of the edit.
C18_TimestampColumn ==
  [][\A req \in RowRequests :
       (Update(req, Calm) /\ response'.status = "success") =>
         LET ws == excel_file.wb[req.sheet]
             ws2 == excel_file'.wb[req.sheet]
             first == Min(MatchingRows(ws, req.client_code))
             had == find_header_index(ws, H_STATUS_UPDATED_AT)
             has == find_header_index(ws2, H_STATUS_UPDATED_AT)
         IN /\ has # NoneIdx
            /\ canon(ws2.hdr[has + 1]) = H_STATUS_UPDATED_AT
            /\ IF had = NoneIdx
                 THEN ws2.hdr = ws.hdr \o <<H_STATUS_UPDATED_AT>> /\ has = Len(ws.hdr)
                 ELSE ws2.hdr = ws.hdr /\ has = had
            /\ response'.updated_at = TimeStr(now)
            /\ ws2.rows[first][has + 1] = response'.updated_at]_vars

\* An edit of a sheet that had no timestamp column has appended it as the
\* fourth column and stamped the row it wrote, and no other row.
C18_TimestampColumnAppended ==
  /\ response.status = "success"
  /\ excel_file.state = "ok"
  /\ excel_file.wb[T_corp].hdr = WS_corp_D.hdr \o <<H_STATUS_UPDATED_AT>>
  /\ excel_file.wb[T_corp].rows[2][4] = response.updated_at
  /\ excel_file.wb[T_corp].rows[3][4] = None

\* C19: when several rows match the key of an edit that reports success,
\* the rows after the first keep the value they had in the edited column, in
\* the workbook and in the body of the /data read made next, compared with
\* the read made before the edit on a cache loaded from the workbook.
C19_OnlyEarliestRowChanges ==
  [][\A req \in RowRequests :
       (/\ final_df = load_excel(excel_file)
        /\ Update(req, Calm)
        /\ response'.status = "success") =>
         LET ws == excel_file.wb[req.sheet]
             ws2 == excel_file'.wb[req.sheet]
             col == find_header_index(ws, req.column) + 1
             hits == MatchingRows(ws, req.client_code)
             before == get_all_data(TRUE).body
             body == (get_all_data(TRUE).body)'
         IN \A j \in hits \ {Min(hits)} :
              /\ ws2.rows[j][col] = ws.rows[j][col]
              /\ body[j][str(ws.hdr[col])] = before[j][str(ws.hdr[col])]]_vars

\* C20: a call of apply_overrides leaves the rows it was handed and the rows
\* of the patch store as they were; it returns as many rows as it was given,
\* every row with the columns it had, and the rows themselves when there
\* are no rows or no patches.
C20_MergeLeavesArgumentsAlone ==
  (call.fn = "apply_overrides" /\ call.pc = "returned") =>
    LET rows == call.args[1]
        table == call.args[2]
    IN /\ call.objects = <<rows, table>>
       /\ Len(call.result) = Len(rows)
       /\ \A i \in 1..Len(rows) : DOMAIN call.result[i] = DOMAIN rows[i]
       /\ (rows = <<>> \/ table = {}) => call.result = rows

\* A call has returned rows that differ from the rows it was handed, which
\* are as they were.
C20_PatchedRowsAreCopies ==
  /\ call.fn = "apply_overrides"
  /\ call.pc = "returned"
  /\ call.result # call.args[1]
  /\ call.objects[1] = call.args[1]
  /\ Cardinality(call.args[2]) = 2

\* The rows of a table whose sheet and client code are those of no row.
Orphans(rows, table) ==
  {p \in table :
     \A i \in 1..Len(rows) :
       ~(/\ str(Get(rows[i], H_SOURCE_SHEET, <<>>)) = p.sheet
         /\ str(Get(rows[i], H_CLIENT_CODE, <<>>)) = p.client_code)}

\* C21: apply_overrides returns one row for every row it was given, in the
\* same order and with the same sheet and client code; no returned row has
\* the sheet and client code of a patch that had no row; and a value differs
\* from the one given only where a patch with the sheet and client code of
\* that row is in the table, so that a table of such patches alone changes
\* nothing.
C21_OrphanedPatchIsInert ==
  (call.fn = "apply_overrides" /\ call.pc = "returned") =>
    LET rows == call.args[1]
        table == call.args[2]
        merged == call.result
    IN /\ Len(merged) = Len(rows)
       /\ \A i \in 1..Len(rows) :
            /\ merged[i][H_SOURCE_SHEET] = rows[i][H_SOURCE_SHEET]
            /\ merged[i][H_CLIENT_CODE] = rows[i][H_CLIENT_CODE]
            /\ \A k \in DOMAIN rows[i] :
                 merged[i][k] # rows[i][k] =>
                   \E p \in table \ Orphans(rows, table) :
                     /\ p.sheet = str(rows[i][H_SOURCE_SHEET])
                     /\ p.client_code = str(rows[i][H_CLIENT_CODE])
       /\ \A p \in Orphans(rows, table) :
            \A i \in 1..Len(merged) :
              ~(/\ str(merged[i][H_SOURCE_SHEET]) = p.sheet
                /\ str(merged[i][H_CLIENT_CODE]) = p.client_code)
       /\ table = Orphans(rows, table) => merged = rows

\* The merge of two rows with a table that holds the patch for C009 alone
\* has returned the rows as they were.
C21_OnlyOrphanedPatch ==
  /\ call.fn = "apply_overrides"
  /\ call.pc = "returned"
  /\ call.args[2] = {Patch(T_corp, K_C009, H_STATUS, H_STATUS, V_SharedClient, 1)}
  /\ Len(call.args[1]) = 2
  /\ call.result = call.args[1]

\* C22: when two edits of different cells, served at the same time, have
\* both reported success, the workbook holds the new value of each in the
\* cell it was for.
C22_BothEditsInWorkbook ==
  (\A e \in EditThreads : edits[e].pc = "done") =>
    \A e \in EditThreads :
      LET req == edits[e].req
      IN excel_file.wb[req.sheet].rows[ResolvedRow(req, excel_file.wb) - 1]
                                      [ResolvedCol(req, excel_file.wb) + 1]
           = req.new_value

\* The answers of update_excel given before the workbook is saved.
RejectKinds ==
  {"missing_fields", "invalid_status", "file_not_found", "sheet_not_found",
   "client_code_header_not_found", "column_not_found", "client_code_not_found"}

\* C23: a request that update_excel answers with one of the rejections made
\* before the save leaves the workbook file, the patch store and the cache
\* as they were.
C23_RejectedEditChangesNothing ==
  [][\A req \in Requests :
       (response'.message.kind \in RejectKinds /\ Update(req, Calm)) =>
         /\ excel_file' = excel_file
         /\ overrides' = overrides
         /\ final_df' = final_df]_vars

\* A request has been rejected for want of a CLIENT CODE header while the
\* store holds a patch and the cache is not a load of the present file.
C23_RejectedOnStaleCache ==
  /\ response.message.kind = "client_code_header_not_found"
  /\ overrides # {}
  /\ excel_file = File("ok", WB_N)
  /\ final_df # load_excel(excel_file)

\* C24: a request whose column has the empty canonical form, made when the
\* file is a workbook whose sheet has a CLIENT CODE header, is answered 400
\* column not found and the workbook is as it was, whatever the header cells
\* of the sheet are.
C24_PunctuationColumnRejected ==
  [][\A req \in PunctRequests :
       (/\ excel_file.state = "ok"
        /\ find_header_index(excel_file.wb[req.sheet], H_CLIENT_CODE) # NoneIdx
        /\ Update(req, Calm))
         => /\ canon(req.column) = <<>>
            /\ response' = Error(400, "column_not_found", req.column)
            /\ excel_file' = excel_file]_vars


\* The (Employee, day) pairs of a leave table, whatever form its dates have.
LeavePairs(df) ==
  {<<df[i].Employee, to_datetime(df[i].Date).day>> : i \in 1..Len(df)}

\* The rows of a leave table holding the pair.
LeaveRowsOf(df, pair) ==
  {i \in 1..Len(df) : <<df[i].Employee, to_datetime(df[i].Date).day>> = pair}

NoDuplicateLeave(df) ==
  \A pair \in LeavePairs(df) : Cardinality(LeaveRowsOf(df, pair)) = 1

\* C25: the leave planner, started from a leave file without duplicate
\* (Employee, Date) rows, never holds two rows with the same employee and
\* date; a run with Add Leave and a range adds one row for each date of the
\* range the selected employee did not have and changes nothing else; a run
\* with Delete Range removes the selected employee's rows dated within the
\* selected range and nothing else, so every row of another employee stays.
C25_LeaveRowsExact ==
  /\ NoDuplicateLeave(leave.data)
  /\ [][/\ NoDuplicateLeave(leave.data')
        /\ \A e \in Employees, a \in 1..MaxDay : \A b \in a..MaxDay :
             AddLeave(e, <<Ts(a), Ts(b)>>) =>
               LET range == {<<e, d>> : d \in a..b}
               IN /\ LeavePairs(leave.data') = LeavePairs(leave.data) \cup range
                  /\ Len(leave.data')
                       = Len(leave.data) + Cardinality(range \ LeavePairs(leave.data))
                  /\ LeavePairs(leave'.csv.rows) = LeavePairs(leave.data')
        /\ \A e \in Employees, a \in 1..MaxDay : \A b \in a..MaxDay :
             DeleteRange(e, range_option(<<Ts(a), Ts(b)>>)) =>
               LET range == {<<e, d>> : d \in a..b}
               IN /\ LeavePairs(leave.data') = LeavePairs(leave.data) \ range
                  /\ Len(leave.data')
                       = Len(leave.data) - Cardinality(range \cap LeavePairs(leave.data))
                  /\ \A pair \in LeavePairs(leave.data) :
                       pair[1] # e => pair \in LeavePairs(leave.data')
                  /\ LeavePairs(leave'.csv.rows) = LeavePairs(leave.data')
     ]_vars

\* C25 witness: a range of three days was added for an employee who had
\* the first of them, beside a row of another employee, and saved.
C25_RangeAddedAroundHeldDay ==
  /\ leave.csv.exists
  /\ leave.csv.rows = leave.data
  /\ leave.data = <<LeaveRow("Tapiwa Mlotshwa", strftime(Ts(2))),
                    LeaveRow("Katlego Moleko", strftime(Ts(1))),
                    LeaveRow("Katlego Moleko", strftime(Ts(2))),
                    LeaveRow("Katlego Moleko", strftime(Ts(3)))>>
====
